---- MODULE Spec2Model ----
(***************************************************************************)
(* Model of the Discord audio controller: DiscordAudioController           *)
(* (discord_audio_controller.py) and its Flask routes (main.py).           *)
(*                                                                         *)
(* The external tool pactl is the environment.  Text is modelled as        *)
(* follows: an application name is a sequence of one-character strings; a  *)
(* line of tool output is a record of the results of the tests the parser  *)
(* applies to the stripped line (startswith, substring, re.search); a      *)
(* Python dict is a function whose DOMAIN is the set of keys present.      *)
(***************************************************************************)
EXTENDS Integers, Sequences, FiniteSets, TLC

(* ----------------------------- bounds -------------------------------- *)

\* longest tool output handed to the parser in SpecParse
MaxLines == 3

(* ----------------------------- dicts --------------------------------- *)

\* d[key] = value on a Python dict
Put(d, k, v) == [x \in (DOMAIN d) \cup {k} |-> IF x = k THEN v ELSE d[x]]

\* d.get(key, default)
Get(d, k, default) == IF k \in DOMAIN d THEN d[k] ELSE default

\* {} : the dict with no key
EmptyDict == [x \in {} |-> x]

\* truthiness of a dict
NonEmpty(d) == DOMAIN d # {}

(* ----------------------------- text ---------------------------------- *)

UpperCase == <<"A","B","C","D","E","F","G","H","I","J","K","L","M",
               "N","O","P","Q","R","S","T","U","V","W","X","Y","Z">>
LowerCase == <<"a","b","c","d","e","f","g","h","i","j","k","l","m",
               "n","o","p","q","r","s","t","u","v","w","x","y","z">>

\* the lower-case letter of each upper-case letter
LowerOf == [c \in {UpperCase[i] : i \in 1..26} |->
              LowerCase[CHOOSE i \in 1..26 : UpperCase[i] = c]]

\* str.lower() of one character
LowerChar(c) == IF c \in DOMAIN LowerOf THEN LowerOf[c] ELSE c

\* str.lower()
Lower(s) == [i \in 1..Len(s) |-> LowerChar(s[i])]

\* pat in s  (substring test)
Contains(pat, s) ==
  \E k \in 0..(Len(s) - Len(pat)) : \A i \in 1..Len(pat) : s[k + i] = pat[i]

S_WEBRTC  == <<"W","E","B","R","T","C"," ","V","o","i","c","e","E","n","g","i","n","e">>
S_webrtc  == <<"w","e","b","r","t","c"," ","v","o","i","c","e","e","n","g","i","n","e">>
S_Discord == <<"D","i","s","c","o","r","d">>
S_discord == <<"d","i","s","c","o","r","d">>
S_playStream == <<"p","l","a","y","S","t","r","e","a","m">>
S_recStream  == <<"r","e","c","S","t","r","e","a","m">>
S_Spotify == <<"S","p","o","t","i","f","y">>
S_playstream == <<"p","l","a","y","s","t","r","e","a","m">>
S_recstream  == <<"r","e","c","s","t","r","e","a","m">>
S_MyDISCORD == <<"M","y"," ","D","I","S","C","O","R","D">>
S_Discor == <<"D","i","s","c","o","r">>

\* self.discord_patterns
discord_patterns == <<S_WEBRTC, S_Discord, S_discord, S_playStream, S_recStream>>

\* pattern.lower() of each pattern
patterns_lower == [i \in 1..Len(discord_patterns) |-> Lower(discord_patterns[i])]

(* ------------------------- lines of tool output ---------------------- *)

\* A line, after strip(), as the parser sees it:
\*   startsSink   line.startswith("Sink Input #")
\*   startsSource line.startswith("Source Output #")
\*   digits       re.search(r'#(\d+)', line): <<>> no match, <<d>> group(1)
\*   hasAppKey    "application.name" in line
\*   appQuoted    re.search(r'application\.name = "([^"]*)"', line)
\*   startsMute   line.startswith("Mute:")
\*   hasYes       "yes" in line.lower()
\*   startsVolume line.startswith("Volume:")
\*   pct          re.search(r'(\d+)%', line)
OtherLine ==
  [startsSink |-> FALSE, startsSource |-> FALSE, digits |-> <<>>,
   hasAppKey |-> FALSE, appQuoted |-> <<>>, startsMute |-> FALSE,
   hasYes |-> FALSE, startsVolume |-> FALSE, pct |-> <<>>]

\* "Sink Input #<id>"; idopt = <<>> is a marker followed by no digit
SinkMarkerLine(idopt) == [OtherLine EXCEPT !.startsSink = TRUE, !.digits = idopt]

\* "Source Output #<id>"
SourceMarkerLine(idopt) == [OtherLine EXCEPT !.startsSource = TRUE, !.digits = idopt]

\* 'application.name = "<name>"'
AppNameLine(name) == [OtherLine EXCEPT !.hasAppKey = TRUE, !.appQuoted = <<name>>]

\* 'application.name.language = en' : the key without the quoted value
AppKeyLine == [OtherLine EXCEPT !.hasAppKey = TRUE]

\* "Mute: yes" / "Mute: no"
MuteLine(b) == [OtherLine EXCEPT !.startsMute = TRUE, !.hasYes = b]

\* "Volume: front-left: 65536 / <p>% / 0.00 dB"; popt = <<>> has no percentage
VolumeLine(popt) == [OtherLine EXCEPT !.startsVolume = TRUE, !.pct = popt]

(* ----------------------------- parser -------------------------------- *)

\* the loop of _get_sink_inputs over output.split('\n'), and its final flush
RECURSIVE ParseSinkLines(_, _, _)
ParseSinkLines(lines, sinks, current_sink) ==
  IF lines = <<>>
  THEN IF NonEmpty(current_sink) THEN Append(sinks, current_sink) ELSE sinks
  ELSE LET line == Head(lines) IN
    IF line.startsSink
    THEN ParseSinkLines(Tail(lines),
           IF NonEmpty(current_sink) THEN Append(sinks, current_sink) ELSE sinks,
           [id |-> IF line.digits # <<>> THEN line.digits[1] ELSE "",
            type |-> "sink-input"])
    ELSE IF line.hasAppKey
    THEN ParseSinkLines(Tail(lines), sinks,
           IF line.appQuoted # <<>>
           THEN Put(current_sink, "app_name", line.appQuoted[1])
           ELSE current_sink)
    ELSE IF line.startsMute
    THEN ParseSinkLines(Tail(lines), sinks, Put(current_sink, "muted", line.hasYes))
    ELSE IF line.startsVolume
    THEN ParseSinkLines(Tail(lines), sinks,
           IF line.pct # <<>>
           THEN Put(current_sink, "volume", line.pct[1])
           ELSE current_sink)
    ELSE ParseSinkLines(Tail(lines), sinks, current_sink)

\* the loop of _get_source_outputs, and its final flush
RECURSIVE ParseSourceLines(_, _, _)
ParseSourceLines(lines, sources_, current_source) ==
  IF lines = <<>>
  THEN IF NonEmpty(current_source) THEN Append(sources_, current_source) ELSE sources_
  ELSE LET line == Head(lines) IN
    IF line.startsSource
    THEN ParseSourceLines(Tail(lines),
           IF NonEmpty(current_source) THEN Append(sources_, current_source) ELSE sources_,
           [id |-> IF line.digits # <<>> THEN line.digits[1] ELSE "",
            type |-> "source-output"])
    ELSE IF line.hasAppKey
    THEN ParseSourceLines(Tail(lines), sources_,
           IF line.appQuoted # <<>>
           THEN Put(current_source, "app_name", line.appQuoted[1])
           ELSE current_source)
    ELSE IF line.startsMute
    THEN ParseSourceLines(Tail(lines), sources_, Put(current_source, "muted", line.hasYes))
    ELSE ParseSourceLines(Tail(lines), sources_, current_source)

(* ------------------------- running the tool -------------------------- *)

\* What subprocess.run(command, check=True) does:
\*   [kind |-> "ok", stdout |-> lines]  exit status 0
\*   [kind |-> "exit"]                  CalledProcessError (non-zero exit)
\*   [kind |-> "oserror"]               FileNotFoundError, PermissionError, ...
ProcOk(lines) == [kind |-> "ok", stdout |-> lines]
ProcExit == [kind |-> "exit", stdout |-> <<>>]
ProcOSError == [kind |-> "oserror", stdout |-> <<>>]

\* what a call gives its caller: a value, or an exception passing through
Return(v) == [exc |-> FALSE, value |-> v]
Raise == [exc |-> TRUE, value |-> <<>>]

\* _run_command: stdout, or None on CalledProcessError; nothing else is caught
\* (none |-> TRUE is None; text is the lines of stdout, <<>> for "")
run_command(proc) ==
  IF proc.kind = "ok" THEN Return([none |-> FALSE, text |-> proc.stdout])
  ELSE IF proc.kind = "exit" THEN Return([none |-> TRUE, text |-> <<>>])
  ELSE Raise

\* _get_sink_inputs, given what running "pactl list sink-inputs" did
get_sink_inputs(proc) ==
  LET output == run_command(proc) IN
  IF output.exc THEN Raise
  ELSE IF output.value.none \/ output.value.text = <<>> THEN Return(<<>>)
  ELSE Return(ParseSinkLines(output.value.text, <<>>, EmptyDict))

\* _get_source_outputs, given what running "pactl list source-outputs" did
get_source_outputs(proc) ==
  LET output == run_command(proc) IN
  IF output.exc THEN Raise
  ELSE IF output.value.none \/ output.value.text = <<>> THEN Return(<<>>)
  ELSE Return(ParseSourceLines(output.value.text, <<>>, EmptyDict))

(* ----------------------------- selection ---------------------------- *)

\* MatchesDiscord with a plausible slip: app_name is not lower-cased
MatchesDiscordCased(stream) ==
  LET app_name == Get(stream, "app_name", <<>>) IN
  \E i \in 1..Len(patterns_lower) : Contains(patterns_lower[i], app_name)

\* the test of the inner loop of _find_discord_streams on one stream
MatchesDiscord(stream) ==
  LET app_name == Lower(Get(stream, "app_name", <<>>)) IN
  \E i \in 1..Len(patterns_lower) : Contains(patterns_lower[i], app_name)

\* the filter of _find_discord_streams over all_streams (append once, then break)
FilterDiscord(all_streams) == SelectSeq(all_streams, MatchesDiscord)

\* _find_discord_streams, given what the two listing commands did
find_discord_streams(procSink, procSource) ==
  LET sink_inputs == get_sink_inputs(procSink) IN
  IF sink_inputs.exc THEN Raise
  ELSE LET source_outputs == get_source_outputs(procSource) IN
       IF source_outputs.exc THEN Raise
       ELSE Return(FilterDiscord(sink_inputs.value \o source_outputs.value))

(* ----------------------------- the tool ------------------------------- *)

\* The audio server behind pactl: two lists of streams.  A stream is
\*   [id |-> <<>> or <<digits>>, name |-> <<>> or <<name>>, muted |-> BOOLEAN]
\* (id <<>>: the header line carries no digits; name <<>>: no application.name)
\* and the tool prints `banner' at the top of each listing.

RECURSIVE Concat(_)
Concat(blocks) == IF blocks = <<>> THEN <<>> ELSE Head(blocks) \o Concat(Tail(blocks))

SinkBlock(e) ==
  <<SinkMarkerLine(e.id), OtherLine, MuteLine(e.muted), VolumeLine(<<100>>)>>
  \o (IF e.name # <<>> THEN <<AppNameLine(e.name[1])>> ELSE <<>>)

SourceBlock(e) ==
  <<SourceMarkerLine(e.id), OtherLine, MuteLine(e.muted), VolumeLine(<<100>>)>>
  \o (IF e.name # <<>> THEN <<AppNameLine(e.name[1])>> ELSE <<>>)

\* stdout of "pactl list sink-inputs"
PrintSinkInputs(tool) ==
  tool.banner \o Concat([i \in 1..Len(tool.sinks) |-> SinkBlock(tool.sinks[i])])

\* stdout of "pactl list source-outputs"
PrintSourceOutputs(tool) ==
  tool.banner \o Concat([i \in 1..Len(tool.sources) |-> SourceBlock(tool.sources[i])])

\* how an invocation may end: exit 0, non-zero exit, or no process at all
ProcKinds == {"ok", "exit", "oserror"}

\* what running a listing command does
RunList(kind, text) ==
  IF kind = "ok" THEN ProcOk(text) ELSE IF kind = "exit" THEN ProcExit ELSE ProcOSError

SetMuted(entries, id, m) ==
  [i \in 1..Len(entries) |->
     IF entries[i].id = <<id>> THEN [entries[i] EXCEPT !.muted = m] ELSE entries[i]]

HasId(entries, id) == \E i \in 1..Len(entries) : entries[i].id = <<id>>

\* what running ["pactl", verb, id, state] does: the process outcome and the
\* tool's state after it; an id the server does not know is a non-zero exit
RunSetMute(tool, cmd, kind) ==
  LET isSink == cmd.verb = "set-sink-input-mute"
      entries == IF isSink THEN tool.sinks ELSE tool.sources
  IN IF kind = "oserror" THEN [proc |-> ProcOSError, tool |-> tool]
     ELSE IF kind = "exit" \/ ~HasId(entries, cmd.id)
     THEN [proc |-> ProcExit, tool |-> tool]
     ELSE [proc |-> ProcOk(<<>>),
           tool |-> IF isSink
                    THEN [tool EXCEPT !.sinks = SetMuted(entries, cmd.id, cmd.state = "1")]
                    ELSE [tool EXCEPT !.sources = SetMuted(entries, cmd.id, cmd.state = "1")]]

(* ----------------------------- controller ----------------------------- *)

\* None, where a dict value is None (no id is "<None>": ids are digits or "")
NoneV == "<None>"

\* a request on its way: what it returns, the tool's state, the commands run
\*   exc, value : as Return / Raise;  tool : the tool's state after the call;
\*   cmds : the mute-set commands run, in order;  sel : the streams selected

\* stream_info with a plausible slip: the muted flag is not copied
stream_info_unmuted(stream) ==
  [id |-> Get(stream, "id", NoneV),
   type |-> IF Get(stream, "type", NoneV) = "sink-input"
            THEN "playback" ELSE "recording",
   app_name |-> Get(stream, "app_name", <<"Unknown">>),
   muted |-> FALSE,
   volume |-> Get(stream, "volume", NoneV)]

\* the display form of one stream in get_status
stream_info(stream) ==
  [id |-> Get(stream, "id", NoneV),
   type |-> IF Get(stream, "type", NoneV) = "sink-input"
            THEN "playback" ELSE "recording",
   app_name |-> Get(stream, "app_name", <<"Unknown">>),
   muted |-> Get(stream, "muted", FALSE),
   volume |-> Get(stream, "volume", NoneV)]

\* get_status
get_status(tool, sinkKind, sourceKind) ==
  LET found == find_discord_streams(RunList(sinkKind, PrintSinkInputs(tool)),
                                    RunList(sourceKind, PrintSourceOutputs(tool)))
      discord_streams == found.value
  IN IF found.exc
     THEN [exc |-> TRUE, value |-> EmptyDict, tool |-> tool, cmds |-> <<>>, sel |-> <<>>]
     ELSE IF discord_streams = <<>>
     THEN [exc |-> FALSE,
           value |-> [success |-> TRUE, found |-> FALSE,
                      message |-> <<"No Discord streams found">>, streams |-> <<>>],
           tool |-> tool, cmds |-> <<>>, sel |-> discord_streams]
     ELSE [exc |-> FALSE,
           value |-> [success |-> TRUE, found |-> TRUE,
                      message |-> <<"Found", Len(discord_streams), "Discord streams">>,
                      streams |-> [i \in 1..Len(discord_streams) |->
                                     stream_info(discord_streams[i])]],
           tool |-> tool, cmds |-> <<>>, sel |-> discord_streams]

\* "if not stream_id or not stream_type: continue", and the final else: continue
Skipped(stream) ==
  \/ Get(stream, "id", "") = ""
  \/ Get(stream, "type", "") = ""
  \/ Get(stream, "type", "") \notin {"sink-input", "source-output"}

\* the streams of a selection the loop runs a command for
Attempted(discord_streams) == SelectSeq(discord_streams, LAMBDA s : ~Skipped(s))

\* CommandFor with a plausible slip: the playback verb for every stream
CommandForSinkOnly(stream, target_state) ==
  [verb |-> "set-sink-input-mute",
   id |-> Get(stream, "id", ""), state |-> target_state]

\* "Choose correct command based on stream type": the command for a stream
\* that is not skipped
CommandFor(stream, target_state) ==
  [verb |-> IF Get(stream, "type", "") = "sink-input"
            THEN "set-sink-input-mute"
            ELSE "set-source-output-mute",
   id |-> Get(stream, "id", ""), state |-> target_state]

\* the for loop of set_mute (lines 224-253) and of toggle_mute (lines 166-196,
\* the same statements).  kinds[j] is how the j-th command run ends.
\* acc = [exc, results, success_count, tool, cmds]
RECURSIVE MuteLoop(_, _, _, _, _)
MuteLoop(streams, target_state, action, kinds, acc) ==
  IF streams = <<>> \/ acc.exc THEN acc
  ELSE LET stream == Head(streams)
           stream_id == Get(stream, "id", "")
           stream_type == Get(stream, "type", "")
           app_name == Get(stream, "app_name", <<"Unknown">>)
       IN IF Skipped(stream)
          THEN MuteLoop(Tail(streams), target_state, action, kinds, acc)
          ELSE LET cmd == CommandFor(stream, target_state)
                   stream_desc == IF stream_type = "sink-input"
                                  THEN "playback" ELSE "recording"
                   ran == RunSetMute(acc.tool, cmd, kinds[Len(acc.cmds) + 1])
                   result == run_command(ran.proc)
                   issued == Append(acc.cmds, [cmd |-> cmd, kind |-> ran.proc.kind])
               IN IF result.exc
                  THEN [acc EXCEPT !.exc = TRUE, !.tool = ran.tool, !.cmds = issued]
                  ELSE MuteLoop(Tail(streams), target_state, action, kinds,
                         [exc |-> FALSE,
                          results |-> Append(acc.results,
                             [id |-> stream_id, type |-> stream_desc,
                              app_name |-> app_name,
                              success |-> ~result.value.none,
                              action |-> action]),
                          success_count |-> IF ~result.value.none
                                            THEN acc.success_count + 1
                                            ELSE acc.success_count,
                          tool |-> ran.tool, cmds |-> issued])

\* the summary returned when no stream is selected (set_mute 211-216,
\* toggle_mute 150-155)
NoStreams ==
  [success |-> FALSE, message |-> <<"No Discord streams found">>,
   streams_affected |-> 0]

\* Summary with a plausible slip: every attempted stream counted as affected
SummaryCountsAttempts(discord_streams, action, success_count, results) ==
  [success |-> Len(results) > 0,
   message |-> <<"Successfully", action, Len(results),
                 Len(discord_streams), "streams">>,
   action |-> action,
   streams_affected |-> Len(results),
   total_streams |-> Len(discord_streams),
   results |-> results]

\* the summary returned after the loop (set_mute 255-262, toggle_mute 198-205)
Summary(discord_streams, action, success_count, results) ==
  [success |-> success_count > 0,
   message |-> <<"Successfully", action, success_count,
                 Len(discord_streams), "streams">>,
   action |-> action,
   streams_affected |-> success_count,
   total_streams |-> Len(discord_streams),
   results |-> results]

\* everything after the selection, common to set_mute and toggle_mute
MuteAll(discord_streams, target_state, action, tool, kinds) ==
  LET done == MuteLoop(discord_streams, target_state, action, kinds,
                [exc |-> FALSE, results |-> <<>>, success_count |-> 0,
                 tool |-> tool, cmds |-> <<>>])
  IN IF done.exc
     THEN [exc |-> TRUE, value |-> EmptyDict, tool |-> done.tool,
           cmds |-> done.cmds, sel |-> discord_streams]
     ELSE [exc |-> FALSE,
           value |-> Summary(discord_streams, action, done.success_count,
                             done.results),
           tool |-> done.tool, cmds |-> done.cmds, sel |-> discord_streams]

\* set_mute with a plausible slip: the "if not discord_streams" return is
\* missing, so an empty selection runs through the loop and the summary
set_mute_unguarded(mute, tool, sinkKind, sourceKind, kinds) ==
  LET found == find_discord_streams(RunList(sinkKind, PrintSinkInputs(tool)),
                                    RunList(sourceKind, PrintSourceOutputs(tool)))
  IN IF found.exc
     THEN [exc |-> TRUE, value |-> EmptyDict, tool |-> tool, cmds |-> <<>>, sel |-> <<>>]
     ELSE MuteAll(found.value, IF mute THEN "1" ELSE "0",
                  IF mute THEN "muted" ELSE "unmuted", tool, kinds)

\* set_mute(mute)
set_mute(mute, tool, sinkKind, sourceKind, kinds) ==
  LET found == find_discord_streams(RunList(sinkKind, PrintSinkInputs(tool)),
                                    RunList(sourceKind, PrintSourceOutputs(tool)))
      discord_streams == found.value
      target_state == IF mute THEN "1" ELSE "0"
      action == IF mute THEN "muted" ELSE "unmuted"
  IN IF found.exc
     THEN [exc |-> TRUE, value |-> EmptyDict, tool |-> tool, cmds |-> <<>>, sel |-> <<>>]
     ELSE IF discord_streams = <<>>
     THEN [exc |-> FALSE, value |-> NoStreams, tool |-> tool, cmds |-> <<>>,
           sel |-> discord_streams]
     ELSE MuteAll(discord_streams, target_state, action, tool, kinds)

\* is_currently_muted with a plausible slip: the last stream, not the first
is_last_muted(discord_streams) ==
  Get(discord_streams[Len(discord_streams)], "muted", FALSE)

\* "Determine target state based on first stream": is_currently_muted
is_currently_muted(discord_streams) ==
  LET first_stream == discord_streams[1] IN Get(first_stream, "muted", FALSE)

\* toggle_mute
toggle_mute(tool, sinkKind, sourceKind, kinds) ==
  LET found == find_discord_streams(RunList(sinkKind, PrintSinkInputs(tool)),
                                    RunList(sourceKind, PrintSourceOutputs(tool)))
      discord_streams == found.value
      target_state == IF is_currently_muted(discord_streams) THEN "0" ELSE "1"
      action == IF is_currently_muted(discord_streams) THEN "unmuted" ELSE "muted"
  IN IF found.exc
     THEN [exc |-> TRUE, value |-> EmptyDict, tool |-> tool, cmds |-> <<>>, sel |-> <<>>]
     ELSE IF discord_streams = <<>>
     THEN [exc |-> FALSE, value |-> NoStreams, tool |-> tool, cmds |-> <<>>,
           sel |-> discord_streams]
     ELSE MuteAll(discord_streams, target_state, action, tool, kinds)

(* ----------------------------- HTTP routes ---------------------------- *)

\* the body of the except branch of a route
ErrorBody(what) == [success |-> FALSE, message |-> <<what, "exception">>]

\* GET /status
route_get_status(r) ==
  IF r.exc THEN [code |-> 500, body |-> ErrorBody("Error getting status: ")]
  ELSE [code |-> 200, body |-> r.value]

\* POST /toggle
route_toggle_mute(r) ==
  IF r.exc THEN [code |-> 500, body |-> ErrorBody("Error toggling mute: ")]
  ELSE [code |-> IF r.value.success THEN 200 ELSE 404, body |-> r.value]

\* mute_discord with a plausible slip: 200 whatever the summary says
mute_discord_always_200(r) ==
  IF r.exc THEN [code |-> 500, body |-> ErrorBody("Error muting Discord: ")]
  ELSE [code |-> 200, body |-> r.value]

\* POST /mute
mute_discord(r) ==
  IF r.exc THEN [code |-> 500, body |-> ErrorBody("Error muting Discord: ")]
  ELSE [code |-> IF r.value.success THEN 200 ELSE 404, body |-> r.value]

\* POST /unmute
unmute_discord(r) ==
  IF r.exc THEN [code |-> 500, body |-> ErrorBody("Error unmuting Discord: ")]
  ELSE [code |-> IF r.value.success THEN 200 ELSE 404, body |-> r.value]

(* ----------------------------- state --------------------------------- *)

VARIABLES
  rawOut,   \* SpecParse: the text the tool prints for a listing
  listed,   \* SpecParse: what the last listing call gave its caller
  tool,     \* the audio server: [sinks, sources, banner]
  resp,     \* the request being answered: route, HTTP code, body, and what
            \* the core call did (exc, listing outcomes, cmds, sel)
  last,     \* SpecRound: the answer the client received before this request
  req,      \* SpecConc: the two /toggle requests in progress, each with the
            \* locals of toggle_mute and its place in it
  hist      \* SpecConc: what happened so far (for stating the properties):
            \*   cmdSeen   a mute-set command has been run
            \*   early[w]  w took its whole snapshot before any such command
            \*   lastBy    the request that ran the last one
            \*   switches  how often lastBy changed hands (counted up to 2)

vars == <<rawOut, listed, tool, resp, last, req, hist>>

NoRequests == <<>>
NoHistory == <<>>

NoCall == [fn |-> "none", kind |-> "none", ret |-> Return(<<>>)]

NoRequest ==
  [route |-> "none", code |-> 0, body |-> EmptyDict, exc |-> FALSE,
   cmds |-> <<>>, sel |-> <<>>, listing |-> <<>>]

NoTool == [sinks |-> <<>>, sources |-> <<>>, banner |-> <<>>]

(* ------------------- SpecParse: the parser alone --------------------- *)

\* the lines the tool may print
LineSamples ==
  { SinkMarkerLine(<<"1">>), SinkMarkerLine(<<>>),
    SourceMarkerLine(<<"2">>), SourceMarkerLine(<<>>),
    AppNameLine(S_Discord), AppKeyLine,
    MuteLine(TRUE), MuteLine(FALSE),
    VolumeLine(<<65>>), VolumeLine(<<>>), OtherLine }

InitParse ==
  /\ rawOut = <<>>
  /\ listed = NoCall
  /\ tool = NoTool
  /\ resp = NoRequest
  /\ last = NoRequest
  /\ req = NoRequests
  /\ hist = NoHistory

\* the tool's listing grows by a line
EmitLine ==
  /\ Len(rawOut) < MaxLines
  /\ \E l \in LineSamples : rawOut' = Append(rawOut, l)
  /\ listed' = NoCall
  /\ UNCHANGED <<tool, resp, last, req, hist>>

\* listPlaybackStreams
ListSinkInputs ==
  /\ \E kind \in ProcKinds :
       listed' = [fn |-> "get_sink_inputs", kind |-> kind,
                  ret |-> get_sink_inputs(RunList(kind, rawOut))]
  /\ UNCHANGED <<rawOut, tool, resp, last, req, hist>>

\* listRecordingStreams
ListSourceOutputs ==
  /\ \E kind \in ProcKinds :
       listed' = [fn |-> "get_source_outputs", kind |-> kind,
                  ret |-> get_source_outputs(RunList(kind, rawOut))]
  /\ UNCHANGED <<rawOut, tool, resp, last, req, hist>>

NextParse == EmitLine \/ ListSinkInputs \/ ListSourceOutputs

SpecParse == InitParse /\ [][NextParse]_vars

(* ------------------- Spec: requests served one at a time -------------- *)

\* most streams the audio server holds (playback and recording together)
MaxStreams == 2

\* the streams the server may hold at place i of a listing
StreamChoices(i) ==
  UNION { { [id |-> <<ToString(i)>>, name |-> <<S_Discord>>, muted |-> m],
            [id |-> <<>>,            name |-> <<S_Discord>>, muted |-> m],
            [id |-> <<ToString(i)>>, name |-> <<S_Spotify>>, muted |-> m] }
          : m \in BOOLEAN }

Listings(n) ==
  { s \in [1..n -> UNION { StreamChoices(i) : i \in 1..n }] :
      \A i \in 1..n : s[i] \in StreamChoices(i) }

Banners == { <<>>, <<AppNameLine(S_Discord)>> }

ToolStates ==
  { [sinks |-> a, sources |-> b, banner |-> c] :
      a \in UNION { Listings(n) : n \in 0..MaxStreams },
      b \in UNION { Listings(n) : n \in 0..MaxStreams },
      c \in Banners }

Init ==
  /\ rawOut = <<>>
  /\ listed = NoCall
  /\ tool \in { t \in ToolStates : Len(t.sinks) + Len(t.sources) <= MaxStreams }
  /\ resp = NoRequest
  /\ last = NoRequest
  /\ req = NoRequests
  /\ hist = NoHistory

\* How the two listing commands of a request end.  A command that is never
\* run, because an earlier one raised, is written "oserror" too.
ListingKinds ==
  { k \in ProcKinds \X ProcKinds : k[1] = "oserror" => k[2] = "oserror" }

\* how the n mute-set commands of a request end (same convention)
CmdKinds(n) ==
  { f \in [1..n -> ProcKinds] :
      \A i \in 1..(n - 1) : f[i] = "oserror" => f[i + 1] = "oserror" }

\* the number of mute-set commands a request runs if none raises
NumCmds(listing) ==
  LET found == find_discord_streams(RunList(listing[1], PrintSinkInputs(tool)),
                                    RunList(listing[2], PrintSourceOutputs(tool)))
  IN IF found.exc THEN 0 ELSE Len(Attempted(found.value))

\* a request answered: the response, and the trace of the core call
Served(route, http, r, listing) ==
  /\ resp' = [route |-> route, code |-> http.code, body |-> http.body,
              exc |-> r.exc, cmds |-> r.cmds, sel |-> r.sel, listing |-> listing]
  /\ tool' = r.tool
  /\ UNCHANGED <<rawOut, listed, last, req, hist>>

\* GET /status
Status ==
  /\ resp = NoRequest
  /\ \E listing \in ListingKinds :
       LET r == get_status(tool, listing[1], listing[2])
       IN Served("/status", route_get_status(r), r, listing)

\* POST /toggle
Toggle ==
  /\ resp = NoRequest
  /\ \E listing \in ListingKinds :
       \E kinds \in CmdKinds(NumCmds(listing)) :
         LET r == toggle_mute(tool, listing[1], listing[2], kinds)
         IN Served("/toggle", route_toggle_mute(r), r, listing)

\* POST /mute
Mute ==
  /\ resp = NoRequest
  /\ \E listing \in ListingKinds :
       \E kinds \in CmdKinds(NumCmds(listing)) :
         LET r == set_mute(TRUE, tool, listing[1], listing[2], kinds)
         IN Served("/mute", mute_discord(r), r, listing)

\* POST /unmute
Unmute ==
  /\ resp = NoRequest
  /\ \E listing \in ListingKinds :
       \E kinds \in CmdKinds(NumCmds(listing)) :
         LET r == set_mute(FALSE, tool, listing[1], listing[2], kinds)
         IN Served("/unmute", unmute_discord(r), r, listing)

\* the response leaves the server, which keeps nothing of it
Deliver ==
  /\ resp # NoRequest
  /\ resp' = NoRequest
  /\ UNCHANGED <<rawOut, listed, tool, last, req, hist>>

Next == Status \/ Toggle \/ Mute \/ Unmute \/ Deliver

Spec == Init /\ [][Next]_vars

(* ------------- SpecRound: one /mute or /unmute, then /status ---------- *)

\* the client receives the answer to its /mute or /unmute
DeliverFirst ==
  /\ resp # NoRequest
  /\ last = NoRequest
  /\ last' = resp
  /\ resp' = NoRequest
  /\ UNCHANGED <<rawOut, listed, tool, req, hist>>

NextRound ==
  \/ last = NoRequest /\ (Mute \/ Unmute)
  \/ DeliverFirst
  \/ last # NoRequest /\ Status

SpecRound == Init /\ [][NextRound]_vars

(* ------------------- SpecSelect: the selection alone ------------------ *)

\* most streams the audio server holds in SpecSelect
MaxListed == 3

\* the application names a stream may carry (<<>>: none)
NameSamples ==
  { <<>>, <<S_Discord>>, <<S_WEBRTC>>, <<S_webrtc>>, <<S_Spotify>>,
    <<S_playStream>>, <<S_recStream>>, <<S_MyDISCORD>>, <<S_Discor>> }

NamedListings(n) ==
  { [i \in 1..n |-> [id |-> <<ToString(i)>>, name |-> names[i], muted |-> FALSE]] :
      names \in [1..n -> NameSamples] }

InitSelect ==
  /\ rawOut = <<>>
  /\ listed = NoCall
  /\ \E n \in 0..MaxListed, m \in 0..MaxListed :
       /\ n + m <= MaxListed
       /\ \E a \in NamedListings(n), b \in NamedListings(m) :
            tool = [sinks |-> a, sources |-> b, banner |-> <<>>]
  /\ resp = NoRequest
  /\ last = NoRequest
  /\ req = NoRequests
  /\ hist = NoHistory

\* findMatchingStreams; `all' keeps what the two listing calls returned
FindStreams ==
  /\ listed = NoCall
  /\ \E listing \in ListingKinds :
       LET sink_inputs == get_sink_inputs(RunList(listing[1], PrintSinkInputs(tool)))
           source_outputs ==
             get_source_outputs(RunList(listing[2], PrintSourceOutputs(tool)))
       IN listed' = [fn |-> "find_discord_streams", kind |-> listing,
                     all |-> IF sink_inputs.exc \/ source_outputs.exc THEN <<>>
                             ELSE sink_inputs.value \o source_outputs.value,
                     ret |-> find_discord_streams(
                               RunList(listing[1], PrintSinkInputs(tool)),
                               RunList(listing[2], PrintSourceOutputs(tool)))]
  /\ UNCHANGED <<rawOut, tool, resp, last, req, hist>>

NextSelect == FindStreams

SpecSelect == InitSelect /\ [][NextSelect]_vars

(* ------------- SpecConc: two /toggle requests at the same time -------- *)

\* app.run(...) serves each request in a thread of its own; a thread runs
\* toggle_mute from one tool invocation to the next
Workers == {1, 2}

\* how a tool invocation ends in SpecConc: every command succeeds
ConcKinds == {"ok"}

Started ==
  [pc |-> "start", sink_inputs |-> <<>>, discord_streams |-> <<>>,
   target_state |-> "", action |-> "", i |-> 1, results |-> <<>>,
   success_count |-> 0, cmds |-> <<>>, ret |-> EmptyDict]

InitConc ==
  /\ rawOut = <<>>
  /\ listed = NoCall
  /\ tool \in { t \in ToolStates : Len(t.sinks) + Len(t.sources) <= MaxStreams }
  /\ resp = NoRequest
  /\ last = NoRequest
  /\ req = [w \in Workers |-> Started]
  /\ hist = [cmdSeen |-> FALSE, early |-> [w \in Workers |-> FALSE],
             lastBy |-> 0, switches |-> 0]

\* toggle_mute up to the return of _get_sink_inputs
ToggleListSinks(w) ==
  /\ req[w].pc = "start"
  /\ \E kind \in ConcKinds :
       LET sink_inputs == get_sink_inputs(RunList(kind, PrintSinkInputs(tool)))
       IN /\ req' = [req EXCEPT ![w] =
                      IF sink_inputs.exc THEN [@ EXCEPT !.pc = "raised"]
                      ELSE [@ EXCEPT !.pc = "listed_sinks",
                                     !.sink_inputs = sink_inputs.value]]
  /\ UNCHANGED <<rawOut, listed, tool, resp, last, hist>>

\* from there to the first mute-set command: _get_source_outputs, the
\* selection, the early return, the target state
ToggleListSources(w) ==
  /\ req[w].pc = "listed_sinks"
  /\ \E kind \in ConcKinds :
       LET source_outputs == get_source_outputs(RunList(kind, PrintSourceOutputs(tool)))
           discord_streams == FilterDiscord(req[w].sink_inputs \o source_outputs.value)
       IN /\ req' = [req EXCEPT ![w] =
                      IF source_outputs.exc THEN [@ EXCEPT !.pc = "raised"]
                      ELSE IF discord_streams = <<>>
                      THEN [@ EXCEPT !.pc = "done", !.ret = NoStreams]
                      ELSE [@ EXCEPT !.pc = "loop",
                                     !.discord_streams = discord_streams,
                                     !.target_state =
                                        IF is_currently_muted(discord_streams)
                                        THEN "0" ELSE "1",
                                     !.action =
                                        IF is_currently_muted(discord_streams)
                                        THEN "unmuted" ELSE "muted"]]
          /\ hist' = [hist EXCEPT !.early[w] = ~hist.cmdSeen]
  /\ UNCHANGED <<rawOut, listed, tool, resp, last>>

\* the places >= i of the streams the loop runs a command for
ToAttempt(streams, i) == { j \in i..Len(streams) : ~Skipped(streams[j]) }

Least(S) == CHOOSE j \in S : \A k \in S : j <= k

\* the loop of toggle_mute up to and including its next mute-set command
ToggleCommand(w) ==
  /\ req[w].pc = "loop"
  /\ ToAttempt(req[w].discord_streams, req[w].i) # {}
  /\ \E kind \in ConcKinds :
       LET j == Least(ToAttempt(req[w].discord_streams, req[w].i))
           stream == req[w].discord_streams[j]
           cmd == CommandFor(stream, req[w].target_state)
           ran == RunSetMute(tool, cmd, kind)
           result == run_command(ran.proc)
           issued == Append(req[w].cmds, [cmd |-> cmd, kind |-> ran.proc.kind])
       IN /\ tool' = ran.tool
          /\ req' = [req EXCEPT ![w] =
                      IF result.exc THEN [@ EXCEPT !.pc = "raised", !.cmds = issued]
                      ELSE [@ EXCEPT
                              !.i = j + 1,
                              !.cmds = issued,
                              !.results = Append(@,
                                 [id |-> Get(stream, "id", ""),
                                  type |-> IF Get(stream, "type", "") = "sink-input"
                                           THEN "playback" ELSE "recording",
                                  app_name |-> Get(stream, "app_name", <<"Unknown">>),
                                  success |-> ~result.value.none,
                                  action |-> req[w].action]),
                              !.success_count =
                                 IF ~result.value.none THEN @ + 1 ELSE @]]
          /\ hist' = [hist EXCEPT
                        !.cmdSeen = TRUE,
                        !.lastBy = w,
                        !.switches = IF hist.lastBy \notin {0, w} /\ @ < 2
                                     THEN @ + 1 ELSE @]
  /\ UNCHANGED <<rawOut, listed, resp, last>>

\* the rest of the loop (streams passed over) and the return of the summary
ToggleReturn(w) ==
  /\ req[w].pc = "loop"
  /\ ToAttempt(req[w].discord_streams, req[w].i) = {}
  /\ req' = [req EXCEPT ![w] =
               [@ EXCEPT !.pc = "done",
                         !.ret = Summary(req[w].discord_streams, req[w].action,
                                         req[w].success_count, req[w].results)]]
  /\ UNCHANGED <<rawOut, listed, tool, resp, last, hist>>

NextConc ==
  \E w \in Workers :
    \/ ToggleListSinks(w)
    \/ ToggleListSources(w)
    \/ ToggleCommand(w)
    \/ ToggleReturn(w)

SpecConc == InitConc /\ [][NextConc]_vars

(* ======================= properties: the parser ====================== *)

\* the number of lines of a text that start with a record-start marker
RECURSIVE CountSinkMarkers(_)
CountSinkMarkers(lines) ==
  IF lines = <<>> THEN 0
  ELSE (IF Head(lines).startsSink THEN 1 ELSE 0) + CountSinkMarkers(Tail(lines))

RECURSIVE CountSourceMarkers(_)
CountSourceMarkers(lines) ==
  IF lines = <<>> THEN 0
  ELSE (IF Head(lines).startsSource THEN 1 ELSE 0) + CountSourceMarkers(Tail(lines))

\* C3 (as claimed): a listing call returns the empty sequence, and raises
\* nothing, however the tool invocation fails: non-zero exit, tool not found,
\* or any other execution error.
C3_AsClaimed ==
  (listed.fn \in {"get_sink_inputs", "get_source_outputs"} /\ listed.kind # "ok")
    => (~listed.ret.exc /\ listed.ret.value = <<>>)

\* C4 (as claimed): for a tool output with N lines starting with the listing's
\* record-start marker the parser returns exactly N records, whatever the
\* other lines are and wherever they stand.
C4_AsClaimed ==
  /\ (listed.fn = "get_sink_inputs" /\ listed.kind = "ok")
       => Len(listed.ret.value) = CountSinkMarkers(rawOut)
  /\ (listed.fn = "get_source_outputs" /\ listed.kind = "ok")
       => Len(listed.ret.value) = CountSourceMarkers(rawOut)

(* ================== properties: requests one at a time ================ *)

IsBulk == resp.route \in {"/toggle", "/mute", "/unmute"}

\* a bulk call that returned its summary (resp.body) to the route
Returned == IsBulk /\ ~resp.exc

\* the number of results of a summary whose succeeded flag is true
Succeeded(results) == Cardinality({ i \in 1..Len(results) : results[i].success })

\* the selected streams that carry a non-empty id
HasStreamId(stream) == Get(stream, "id", "") # ""
WithId(streams) == SelectSeq(streams, HasStreamId)

\* the target state of the request being answered
TargetState ==
  IF resp.route = "/mute" THEN "1"
  ELSE IF resp.route = "/unmute" THEN "0"
  ELSE IF Get(resp.sel[1], "muted", FALSE) THEN "0" ELSE "1"

ActionLabel == IF TargetState = "1" THEN "muted" ELSE "unmuted"

VerbOf(stream) ==
  IF stream.type = "sink-input" THEN "set-sink-input-mute"
  ELSE "set-source-output-mute"

C9_HttpCodes ==
  /\ IsBulk =>
       /\ resp.code \in {200, 404, 500}
       /\ (resp.code = 500) <=> resp.exc
       /\ (resp.code = 200) <=> (~resp.exc /\ resp.body.success)
       /\ (resp.code = 404) <=> (~resp.exc /\ ~resp.body.success)
       /\ (resp.code = 500) => ~resp.body.success
  /\ resp.route = "/status" =>
       /\ (resp.code = 500) <=> resp.exc
       /\ ~resp.exc => (resp.code = 200 /\ resp.body.success)
       /\ resp.exc => ~resp.body.success

\* every per-stream command failed: 404 although a stream matched
C9_Witness ==
  /\ IsBulk
  /\ resp.code = 404
  /\ resp.cmds # <<>>
  /\ resp.body.total_streams > 0

(* ============ properties: /mute or /unmute, then /status ============== *)

\* the client got the answer of a setMute that returned, and now gets the
\* answer of the getStatus that came next
RoundTrip ==
  /\ last.route \in {"/mute", "/unmute"}
  /\ ~last.exc
  /\ resp.route = "/status"

DescOf(verb) == IF verb = "set-sink-input-mute" THEN "playback" ELSE "recording"

\* C8 (as claimed): getStatus right after setMute(on) reports found = true
\* and muted = on for every stream that setMute had matched.  (Stated here
\* for a setMute that reported success and a getStatus whose two listing
\* commands exit 0.)
C8_AsClaimed ==
  (RoundTrip /\ last.sel # <<>> /\ last.body.success
     /\ resp.listing = <<"ok", "ok">>) =>
    /\ resp.body.found
    /\ Len(resp.body.streams) = Len(last.sel)
    /\ \A i \in 1..Len(last.sel) :
         /\ resp.body.streams[i].id = Get(last.sel[i], "id", NoneV)
         /\ resp.body.streams[i].muted = (last.route = "/mute")

\* C8 (amended): when both listing commands of the getStatus that follows a
\* setMute(on) exit 0, it reports found = true and muted = on for every
\* stream whose mute-set command setMute ran and saw exit 0; a matched stream
\* without id, which gets no command, and a stream whose command failed keep
\* the flag they had.
C8_RoundTrip ==
  (last.route \in {"/mute", "/unmute"} /\ resp.route = "/status"
     /\ resp.listing = <<"ok", "ok">>) =>
    \A j \in 1..Len(last.cmds) :
      last.cmds[j].kind = "ok" =>
        /\ resp.body.found
        /\ \E i \in 1..Len(resp.body.streams) :
             /\ resp.body.streams[i].id = last.cmds[j].cmd.id
             /\ resp.body.streams[i].type = DescOf(last.cmds[j].cmd.verb)
             /\ resp.body.streams[i].muted = (last.cmds[j].cmd.state = "1")
        /\ \A i \in 1..Len(resp.body.streams) :
             (/\ resp.body.streams[i].id = last.cmds[j].cmd.id
              /\ resp.body.streams[i].type = DescOf(last.cmds[j].cmd.verb))
               => resp.body.streams[i].muted = (last.cmds[j].cmd.state = "1")

\* /mute muted a playback stream that was unmuted (its recording twin's
\* command failed), and /status shows the first muted and the second not
C8_Witness ==
  /\ RoundTrip
  /\ last.route = "/mute"
  /\ Len(last.sel) = 2
  /\ Get(last.sel[1], "muted", FALSE) = FALSE
  /\ Len(last.cmds) = 2
  /\ last.cmds[1].kind = "ok" /\ last.cmds[2].kind = "exit"
  /\ resp.listing = <<"ok", "ok">>
  /\ resp.body.found
  /\ Len(resp.body.streams) = 2
  /\ resp.body.streams[1].muted = TRUE
  /\ resp.body.streams[2].muted = FALSE

(* ==================== properties: the selection ======================= *)

\* the patterns, case-folded
FoldedPatterns == {S_webrtc, S_discord, S_playstream, S_recstream}

\* a record whose appName is present and, case-folded, contains a pattern
ShouldSelect(stream) ==
  /\ "app_name" \in DOMAIN stream
  /\ \E p \in FoldedPatterns : Contains(p, Lower(stream.app_name))

InSeq(x, seq) == \E i \in 1..Len(seq) : seq[i] = x

\* C6: findMatchingStreams returns exactly the inventory records whose
\* appName is present and, case-folded, contains one of the case-folded
\* patterns; each once, matching playback records before matching recording
\* records, order within each listing kept ("Discord", "WEBRTC VoiceEngine",
\* "webrtc voiceengine" selected; "Spotify" and records without appName not).
C6_Selection ==
  (listed.fn = "find_discord_streams" /\ ~listed.ret.exc) =>
    LET found == listed.ret.value IN
    /\ found = SelectSeq(listed.all, ShouldSelect)
    /\ \A i \in 1..Len(found) : \A j \in 1..Len(found) :
         (i < j) => /\ found[i] # found[j]
                    /\ ~(found[i].type = "source-output" /\ found[j].type = "sink-input")
                    /\ \E a \in 1..Len(listed.all) : \E b \in 1..Len(listed.all) :
                         a < b /\ listed.all[a] = found[i] /\ listed.all[b] = found[j]
    /\ \A k \in 1..Len(listed.all) :
         LET stream == listed.all[k] IN
         /\ Get(stream, "app_name", <<>>) \in {S_Discord, S_WEBRTC, S_webrtc}
              => InSeq(stream, found)
         /\ ("app_name" \notin DOMAIN stream \/ Get(stream, "app_name", <<>>) = S_Spotify)
              => ~InSeq(stream, found)

\* a playback "WEBRTC VoiceEngine" and a recording "My DISCORD" are selected
\* in that order, and a stream without appName between them is not
C6_Witness ==
  /\ listed.fn = "find_discord_streams" /\ ~listed.ret.exc
  /\ Len(listed.all) = 3
  /\ "app_name" \notin DOMAIN listed.all[2]
  /\ Len(listed.ret.value) = 2
  /\ listed.ret.value[1].type = "sink-input"
  /\ listed.ret.value[1].app_name = S_WEBRTC
  /\ listed.ret.value[2].type = "source-output"
  /\ listed.ret.value[2].app_name = S_MyDISCORD

(* ================ properties: two /toggle at the same time ============ *)

BothDone == \A w \in Workers : req[w].pc = "done"

\* the mute-set commands the two requests ran
AllCmds ==
  UNION { { req[w].cmds[j].cmd : j \in 1..Len(req[w].cmds) } : w \in Workers }

\* the mute flag the server now holds for the stream a command addressed
FlagOf(cmd) ==
  LET entries == IF cmd.verb = "set-sink-input-mute" THEN tool.sinks ELSE tool.sources
  IN entries[CHOOSE i \in 1..Len(entries) : entries[i].id = <<cmd.id>>].muted

\* both took their whole snapshot before either ran a mute-set command
BothEarly == \A w \in Workers : hist.early[w]

\* (i) both compute the same target, and every stream they address ends
\* with the negation of the flag the first selected stream had
ToggledOnce ==
  (BothEarly /\ AllCmds # {}) =>
    /\ req[1].target_state = req[2].target_state
    /\ \A c \in AllCmds :
         FlagOf(c) = ~Get(req[1].discord_streams[1], "muted", FALSE)

\* all streams the requests addressed hold the same flag
Uniform == \A c \in AllCmds : \A d \in AllCmds : FlagOf(c) = FlagOf(d)

\* C10 (as claimed): two concurrent toggleMute whose commands all succeed:
\* (i) if both snapshot before either runs a mute-set command, the streams
\* end toggled once; (ii) for every interleaving, once both have finished,
\* all matched streams hold the same mute flag.  (Read for the matched
\* streams that carry an id, the only ones a command is run for.)
C10_AsClaimed == BothDone => (ToggledOnce /\ Uniform)

\* C10 (amended): (i) as claimed; (ii) once both have finished, all matched
\* streams that carry an id hold the same mute flag if the two requests'
\* mute-set commands did not interleave (one ran all of its commands before
\* the other ran its first) or if both took their snapshot before either
\* ran a command; when a request snapshots after the other's first command
\* and their commands interleave, some matched streams may end muted and
\* others unmuted.
C10_ConcurrentToggles ==
  BothDone =>
    /\ ToggledOnce
    /\ (hist.switches <= 1 \/ BothEarly) => Uniform

\* both requests snapshot first, then their commands interleave on two
\* streams whose flags differed, and both streams end with the same flag
C10_Witness ==
  /\ BothDone
  /\ BothEarly
  /\ hist.switches = 2
  /\ Cardinality(AllCmds) = 2
  /\ Get(req[1].discord_streams[1], "muted", FALSE)
       # Get(req[1].discord_streams[2], "muted", FALSE)
  /\ Uniform

====
